---- MODULE Spec2Model ----
(***************************************************************************)
(* A model of the SEO audit service of src/flask_app.py: the two request   *)
(* handlers /audit and /audit-report, and the report-building pipeline     *)
(* build_report with its helpers (clean_text, extract_keywords,            *)
(* heading_structure_score, analyze_semantic_relationships).               *)
(*                                                                         *)
(* Python str values are sequences of one-character strings; an            *)
(* OrderedDict is a sequence of <<key, value>> pairs in insertion order.   *)
(***************************************************************************)
EXTENDS Integers, Sequences, FiniteSets, TLC

VARIABLES
    pc,          \* position of the running handler / pipeline
    req,         \* the request being served: endpoint and query arguments
    doc,         \* the parsed document (the BeautifulSoup tree), by the queries made on it
    report,      \* the OrderedDict under construction / returned
    status,      \* HTTP status of the response sent (0: none yet)
    events,      \* steps the current request has performed, in order
    served,      \* number of requests received so far
    seed,        \* the interpreter's string-hash seed (PYTHONHASHSEED), fixed per process
    prevReport   \* the report of the previous run on the same document

vars == <<pc, req, doc, report, status, events, served, seed, prevReport>>

----------------------------------------------------------------------------
(* Bounds of the model *)

MaxRequests == 2

\* longest title text enumerated character by character
MaxTitleLen == 4

\* longest heading sequence over all six levels, and over SkipLevels alone
MaxHeadings == 3
MaxSkipHeadings == 12

\* most anchors of a document, and the longest list of like anchors
MaxAnchors == 3
MaxSameAnchors == 21

\* most JSON-LD script tags of a document, and most pieces of a script body
MaxScripts == 2
MaxBodyPieces == 3

\* most noun chunks spaCy returns for a document
MaxChunks == 3

\* number of text atoms concatenated into a document text
MaxTextAtoms == 5

\* largest explicit top_n passed to extract_keywords besides the default
MaxTopN == 2

----------------------------------------------------------------------------
(* Python str helpers *)

UpperCase == <<"A","B","C","D","E","F","G","H","I","J","K","L","M",
               "N","O","P","Q","R","S","T","U","V","W","X","Y","Z">>
LowerCase == <<"a","b","c","d","e","f","g","h","i","j","k","l","m",
               "n","o","p","q","r","s","t","u","v","w","x","y","z">>
Digits == {"0","1","2","3","4","5","6","7","8","9"}

Range(s) == {s[i] : i \in 1..Len(s)}

IsSpace(c) == c \in {" ", "\t", "\n", "\r"}

IsAlnum(c) == c \in Range(UpperCase) \cup Range(LowerCase) \cup Digits

Lower(c) == IF \E i \in 1..Len(UpperCase) : UpperCase[i] = c
            THEN LowerCase[CHOOSE i \in 1..Len(UpperCase) : UpperCase[i] = c]
            ELSE c

RECURSIVE LStrip(_)
LStrip(s) == IF s # <<>> /\ IsSpace(Head(s)) THEN LStrip(Tail(s)) ELSE s

RECURSIVE RStrip(_)
RStrip(s) == IF s # <<>> /\ IsSpace(s[Len(s)])
             THEN RStrip(SubSeq(s, 1, Len(s) - 1))
             ELSE s

\* str.strip()
Strip(s) == RStrip(LStrip(s))

\* str.split(): the maximal runs of non-whitespace characters, in order
RECURSIVE SplitFrom(_, _, _)
SplitFrom(s, cur, acc) ==
    IF s = <<>>
    THEN IF cur = <<>> THEN acc ELSE Append(acc, cur)
    ELSE IF IsSpace(Head(s))
         THEN SplitFrom(Tail(s), <<>>, IF cur = <<>> THEN acc ELSE Append(acc, cur))
         ELSE SplitFrom(Tail(s), Append(cur, Head(s)), acc)

Split(s) == SplitFrom(s, <<>>, <<>>)

RECURSIVE Concat(_)
Concat(ss) == IF ss = <<>> THEN <<>> ELSE Head(ss) \o Concat(Tail(ss))

\* all sequences over S of length at most n
SeqsUpTo(S, n) == UNION {[1..k -> S] : k \in 0..n}

----------------------------------------------------------------------------
(* collections.OrderedDict *)

OD_Keys(d) == [i \in 1..Len(d) |-> d[i][1]]

OD_Has(d, k) == \E i \in 1..Len(d) : d[i][1] = k

OD_Get(d, k) == d[CHOOSE i \in 1..Len(d) : d[i][1] = k][2]

\* d[k] = v : a new key goes last, an existing key keeps its position
OD_Set(d, k, v) ==
    IF OD_Has(d, k)
    THEN [i \in 1..Len(d) |-> IF d[i][1] = k THEN <<k, v>> ELSE d[i]]
    ELSE Append(d, <<k, v>>)

----------------------------------------------------------------------------
(* The parsed document.  BeautifulSoup is an external capability: a document *)
(* is given by the answers it returns to the queries build_report makes.    *)

NotFound == <<"N","o","t"," ","F","o","u","n","d">>

\* a tag looked up for one attribute: whether the tag is there, whether it
\* has the attribute, and the attribute's value
NoTag == [exists |-> FALSE, hasAttr |-> FALSE, value |-> <<>>]

\* the answer of spaCy on a text that holds no noun chunk
NoChunks == [fails |-> FALSE, chunks |-> <<>>, similar |-> {}, vectorless |-> {}]

\* A document with nothing in it: BeautifulSoup("", "html.parser")
BlankDoc ==
    [ title      |-> [exists |-> FALSE, hasString |-> FALSE, string |-> <<>>],
      meta_desc  |-> NoTag,   \* <meta name="description">, attribute content
      headings   |-> <<>>,    \* the h1..h6 tags, in document order: level and text
      full_text  |-> <<>>,    \* soup.get_text(" ", strip=True)
      canonical  |-> NoTag,   \* <link rel="canonical">, attribute href
      robots     |-> NoTag,   \* <meta name="robots">, attribute content
      resources  |-> <<>>,    \* src or href of the img, script and link tags ("": neither)
      anchors    |-> <<>>,    \* the <a> tags, in document order
      images     |-> <<>>,    \* the <img> tags: whether alt is there, and its value
      ldjson     |-> <<>>,    \* bodies of the <script type="application/ld+json"> tags
      favicon    |-> NoTag,   \* first <link> whose rel contains "icon", attribute href
      alternates |-> <<>>,    \* the <link rel="alternate"> tags, attributes hreflang and href
      nlp        |-> NoChunks ]  \* what spaCy makes of full_text[:100000]

----------------------------------------------------------------------------
(* build_report, lines 137-140: Title and Title Length *)

\* (soup.title.string or "").strip() if soup.title and soup.title.string else "Not Found"
TitleOf(d) ==
    IF d.title.exists /\ d.title.hasString /\ d.title.string # <<>>
    THEN Strip(d.title.string)
    ELSE NotFound

\* len(title) if title != "Not Found" else 0
TitleLengthOf(title) == IF title # NotFound THEN Len(title) ELSE 0

TitleFields(r, d) ==
    LET title == TitleOf(d)
    IN  OD_Set(OD_Set(r, "Title", title), "Title Length", TitleLengthOf(title))

----------------------------------------------------------------------------
(* heading_structure_score, lines 115-126 *)

\* the comparison of line 123 taken one level too early
SkipsLevelOffByOne(level, last_level) == last_level # 0 /\ level - last_level >= 1

\* level - last_level > 1, with last_level = 0 standing for None
SkipsLevel(level, last_level) == last_level # 0 /\ level - last_level > 1

\* the for loop of lines 121-125 from position i on
RECURSIVE ScoreLoop(_, _, _, _)
ScoreLoop(headings, i, score, last_level) ==
    IF i > Len(headings)
    THEN score
    ELSE ScoreLoop(headings, i + 1,
                   IF SkipsLevel(headings[i].level, last_level) THEN score - 20 ELSE score,
                   headings[i].level)

Max(a, b) == IF a >= b THEN a ELSE b

heading_structure_score(d) ==
    IF d.headings = <<>>
    THEN 0
    ELSE Max(ScoreLoop(d.headings, 1, 100, 0), 0)

HeadingScoreField(r, d) == OD_Set(r, "Heading Structure Score", heading_structure_score(d))

----------------------------------------------------------------------------
(* clean_text and extract_keywords, lines 91-105 *)

\* re.sub(r"[^a-zA-Z0-9\s]", " ", text or "") followed by .lower()
clean_text(text) ==
    [i \in 1..Len(text) |->
        IF IsAlnum(text[i]) \/ IsSpace(text[i]) THEN Lower(text[i]) ELSE " "]

stopwords ==
    { <<"t","h","e">>, <<"a","n","d">>, <<"t","o">>, <<"o","f">>, <<"a">>,
      <<"i","n">>, <<"f","o","r">>, <<"i","s">>, <<"o","n">>, <<"w","i","t","h">>,
      <<"t","h","a","t">>, <<"a","s">>, <<"b","y">>, <<"t","h","i","s">>,
      <<"a","n">>, <<"b","e">>, <<"o","r">>, <<"i","t">>, <<"a","r","e">>,
      <<"a","t">>, <<"f","r","o","m">>, <<"w","a","s">>, <<"b","u","t">>,
      <<"n","o","t">>, <<"h","a","v","e">>, <<"h","a","s">>, <<"y","o","u">>,
      <<"y","o","u","r">>, <<"o","u","r">>, <<"t","h","e","i","r">>,
      <<"t","h","e","y">>, <<"w","e">>, <<"h","e">>, <<"s","h","e">>,
      <<"t","h","e","m">>, <<"h","i","s">>, <<"h","e","r">>, <<"i","t","s">> }

\* [w for w in words if w not in stopwords and len(w) > 2]
KeepsWord(w) == w \notin stopwords /\ Len(w) > 2

\* Counter(words): a dict from word to count, in order of first occurrence
RECURSIVE CounterOf(_, _)
CounterOf(words, acc) ==
    IF words = <<>>
    THEN acc
    ELSE LET w == Head(words)
         IN  CounterOf(Tail(words),
                       OD_Set(acc, w, IF OD_Has(acc, w) THEN OD_Get(acc, w) + 1 ELSE 1))

\* a sort that is not stable: an equal count overtakes too
OvertakesOnTie(a, b) == a[2] >= b[2]

\* whether item a is placed before item b, which came earlier in the dict:
\* sorted(..., key=count, reverse=True) is stable, so only a larger count overtakes
Overtakes(a, b) == a[2] > b[2]

\* one step of the stable sort by decreasing count: item goes after every
\* item already placed that it does not overtake
RECURSIVE InsertByCount(_, _)
InsertByCount(item, sorted) ==
    IF sorted = <<>>
    THEN <<item>>
    ELSE IF Overtakes(item, sorted[Len(sorted)])
         THEN Append(InsertByCount(item, SubSeq(sorted, 1, Len(sorted) - 1)),
                     sorted[Len(sorted)])
         ELSE Append(sorted, item)

RECURSIVE SortByCount(_, _)
SortByCount(items, acc) ==
    IF items = <<>> THEN acc
    ELSE SortByCount(Tail(items), InsertByCount(Head(items), acc))

\* Counter.most_common(n): heapq.nlargest(n, items, key=count), which is
\* sorted(items, key=count, reverse=True)[:n]; nothing for n <= 0
most_common(counter, n) ==
    LET sorted == SortByCount(counter, <<>>)
    IN  IF n <= 0 THEN <<>>
        ELSE SubSeq(sorted, 1, IF n < Len(sorted) THEN n ELSE Len(sorted))

SelectSeqKept(words) == SelectSeq(words, KeepsWord)

extract_keywords(text, top_n) ==
    most_common(CounterOf(SelectSeqKept(Split(clean_text(text))), <<>>), top_n)

\* top_n: int = 20
DefaultTopN == 20

----------------------------------------------------------------------------
(* build_report, lines 153-157 and 215-219: word count, keywords, density *)

\* f"{(v / total_words * 100):.2f}%" as a number of hundredths of a percent:
\* v * 10000 / total_words rounded to the nearest integer, ties to even
DensityOf(v, total_words) ==
    LET q == (v * 10000) \div total_words
        r == (v * 10000) % total_words
    IN  IF 2 * r > total_words \/ (2 * r = total_words /\ q % 2 = 1)
        THEN q + 1
        ELSE q

\* full_text[:1000]
PreviewLimit == 1000

BodyFields(r, d) ==
    LET full_text == d.full_text
        preview == SubSeq(full_text, 1,
                          IF Len(full_text) < PreviewLimit THEN Len(full_text) ELSE PreviewLimit)
    IN  OD_Set(OD_Set(r, "Body Content (Preview)", preview),
               "Word Count", Len(Split(full_text)))

\* {k: ... for k, v in top_keywords.items()} if total_words else {}
DensityMap(top_keywords, total_words) ==
    IF total_words # 0
    THEN [i \in 1..Len(top_keywords) |->
            <<top_keywords[i][1], DensityOf(top_keywords[i][2], total_words)>>]
    ELSE <<>>

KeywordFields(r, d) ==
    LET top_keywords == extract_keywords(d.full_text, DefaultTopN)
        total_words == Len(Split(d.full_text))
    IN  OD_Set(OD_Set(r, "Top Keywords", top_keywords),
               "Keyword Density", DensityMap(top_keywords, total_words))

----------------------------------------------------------------------------
(* urllib.parse, as build_report uses it.  A URL is the record urlparse    *)
(* makes of it; "" is an absent component.                                  *)

URLOf(scheme, netloc, path, fragment) ==
    [scheme |-> scheme, netloc |-> netloc, path |-> path, fragment |-> fragment]

\* the schemes urljoin resolves against a base (urllib.parse.uses_relative)
uses_relative == {"", "http", "https", "ftp", "file"}

\* urljoin(base, url)
urljoin(base, url) ==
    IF url = URLOf("", "", "", "") THEN base
    ELSE IF url.scheme # "" /\ (url.scheme # base.scheme \/ url.scheme \notin uses_relative)
    THEN url
    ELSE IF url.netloc # ""
    THEN URLOf(base.scheme, url.netloc, url.path, url.fragment)
    ELSE IF url.path = ""
    THEN URLOf(base.scheme, base.netloc, base.path, url.fragment)
    ELSE URLOf(base.scheme, base.netloc, url.path, url.fragment)

\* get_redirected_domain, lines 108-112: urlparse(url).netloc
get_redirected_domain(url) == url.netloc

----------------------------------------------------------------------------
(* build_report, lines 175-189: link classification *)

\* soup.find_all("a", href=True): the anchors that carry an href attribute
AnchorsWithHref(d) == SelectSeq(d.anchors, LAMBDA a : a.hasHref)

\* {"url": abs_url, "anchor": a.get_text(strip=True)}
LinkEntry(url, a) == [url |-> urljoin(url, a.href), anchor |-> Strip(a.text)]

IsInternal(url, a) == get_redirected_domain(urljoin(url, a.href)) = url.netloc

\* internal_links[:20]
LinkDetailCap == 20

FirstN(s, n) == SubSeq(s, 1, IF Len(s) < n THEN Len(s) ELSE n)

LinkFields(r, url, d) ==
    LET found == AnchorsWithHref(d)
        internal_links == [i \in 1..Len(SelectSeq(found, LAMBDA a : IsInternal(url, a))) |->
                              LinkEntry(url, SelectSeq(found, LAMBDA a : IsInternal(url, a))[i])]
        external_links == [i \in 1..Len(SelectSeq(found, LAMBDA a : ~IsInternal(url, a))) |->
                              LinkEntry(url, SelectSeq(found, LAMBDA a : ~IsInternal(url, a))[i])]
    IN  OD_Set(OD_Set(OD_Set(OD_Set(r,
            "Internal Links Count", Len(internal_links)),
            "External Links Count", Len(external_links)),
            "Internal Links", FirstN(internal_links, LinkDetailCap)),
            "External Links", FirstN(external_links, LinkDetailCap))

----------------------------------------------------------------------------
(* build_report, lines 193-209: schema markup *)

\* A script body is a sequence of lexical pieces: the text of one JSON
\* object, text that is no JSON, blanks, and the HTML comment markers.
JsonObjectText == "{\"@type\":\"Article\"}"
CommentOpen == "<!--"
CommentClose == "-->"

\* json.loads(raw): the parsed value of the one JSON text that raw holds
\* between optional blanks; anything else raises
JsonParses(raw) == Strip(raw) = <<JsonObjectText>>

JsonLoads(raw) == "Article"

\* re.sub(pattern, repl, s) for a pattern that matches only the empty
\* string: repl is put at every position of s, and s is otherwise kept
RECURSIVE ReSubEmpty(_, _)
ReSubEmpty(repl, s) ==
    IF s = <<>> THEN repl ELSE repl \o <<Head(s)>> \o ReSubEmpty(repl, Tail(s))

\* cleaned = re.sub(r"", "", raw, flags=re.DOTALL)
Cleaned(raw) == ReSubEmpty(<<>>, raw)

\* the loop of lines 195-208 over the script tags from position i on
RECURSIVE SchemaLoop(_, _, _)
SchemaLoop(scripts, i, schemas) ==
    IF i > Len(scripts)
    THEN schemas
    ELSE LET raw == Strip(scripts[i])
         IN  SchemaLoop(scripts, i + 1,
                 IF raw = <<>> THEN schemas
                 ELSE IF JsonParses(raw) THEN Append(schemas, JsonLoads(raw))
                 ELSE IF JsonParses(Cleaned(raw)) THEN Append(schemas, JsonLoads(Cleaned(raw)))
                 ELSE schemas)

\* schemas if schemas else "Not Found"
SchemaField(r, d) ==
    LET schemas == SchemaLoop(d.ldjson, 1, <<>>)
    IN  OD_Set(r, "Schema Markup", IF schemas # <<>> THEN schemas ELSE NotFound)

----------------------------------------------------------------------------
(* build_report, lines 142-151, 161-174, 190-192 and 210-213: the passes    *)
(* over single tags                                                         *)

\* tag.get(attr) if tag and tag.has_attr(attr) else "Not Found"
AttrOrNotFound(tag) == IF tag.exists /\ tag.hasAttr THEN tag.value ELSE NotFound

\* desc.get("content", "").strip() if desc and desc.has_attr("content") else "Not Found"
MetaFields(r, d) ==
    LET meta_desc == IF d.meta_desc.exists /\ d.meta_desc.hasAttr
                     THEN Strip(d.meta_desc.value)
                     ELSE NotFound
    IN  OD_Set(OD_Set(r, "Meta Description", meta_desc),
               "Meta Description Length",
               IF meta_desc # NotFound THEN Len(meta_desc) ELSE 0)

\* sep.join(parts)
RECURSIVE Join(_, _)
Join(sep, parts) ==
    IF parts = <<>> THEN <<>>
    ELSE IF Len(parts) = 1 THEN parts[1]
    ELSE parts[1] \o sep \o Join(sep, Tail(parts))

PipeSep == <<" ", "|", " ">>

\* " | ".join([h.get_text(strip=True) for h in hs]) or "Not Found", hs = find_all(f"h{i}")
HeadingField(r, d, i) ==
    LET hs == SelectSeq(d.headings, LAMBDA h : h.level = i)
        joined == Join(PipeSep, [k \in 1..Len(hs) |-> Strip(hs[k].text)])
    IN  OD_Set(r, CASE i = 1 -> "H1" [] i = 2 -> "H2" [] OTHER -> "H3",
               IF joined # <<>> THEN joined ELSE NotFound)

\* for i in range(1, 4)
HeadingFields(r, d) == HeadingField(HeadingField(HeadingField(r, d, 1), d, 2), d, 3)

StartsWith(s, prefix) ==
    Len(s) >= Len(prefix) /\ SubSeq(s, 1, Len(prefix)) = prefix

HttpPrefix == <<"h","t","t","p",":","/","/">>

\* lines 166-174: url.startswith("https"), and any plain-http resource
SecurityFields(r, url, d) ==
    LET https == url.scheme = "https"
        is_mixed == https /\ \E i \in 1..Len(d.resources) :
                                d.resources[i] # <<>> /\ StartsWith(d.resources[i], HttpPrefix)
    IN  OD_Set(OD_Set(r, "HTTPS", IF https THEN "Yes" ELSE "No"),
               "Mixed Content", IF is_mixed THEN "Yes" ELSE "No")

\* sum(1 for img in images if not (img.get("alt") or "").strip())
ImageFields(r, d) ==
    OD_Set(OD_Set(r, "Total Images", Len(d.images)),
           "Images Missing ALT",
           Cardinality({i \in 1..Len(d.images) :
                           ~d.images[i].hasAlt \/ Strip(d.images[i].alt) = <<>>}))

\* [link.get("href") for link in find_all("link", rel="alternate") if link.has_attr("hreflang")]
Hreflangs(d) == SelectSeq(d.alternates, LAMBDA l : l.hasHreflang)

\* " | ".join(hreflangs) raises TypeError when a link has no href (None)
HreflangRaises(d) == \E i \in 1..Len(Hreflangs(d)) : ~Hreflangs(d)[i].hasHref

HreflangField(r, d) ==
    LET hreflangs == [i \in 1..Len(Hreflangs(d)) |-> Hreflangs(d)[i].href]
    IN  OD_Set(r, "Hreflang Tags",
               IF hreflangs # <<>> THEN Join(PipeSep, hreflangs) ELSE NotFound)

----------------------------------------------------------------------------
(* analyze_semantic_relationships, lines 45-88 *)

\* iteration over a set of str: the order the interpreter's hash seed gives;
\* seed lists the strings in that order
SetOrder(S, hashSeed) == SelectSeq(hashSeed, LAMBDA x : x \in S)

LowerStr(t) == [i \in 1..Len(t) |-> Lower(t[i])]

\* len(chunk.text.split()) > 1 and len(chunk.text.split()) < 5
IsKeyPhrase(t) == Len(Split(t)) > 1 /\ Len(Split(t)) < 5

\* phrase_counts.most_common(10)
MainPhraseLimit == 10

NotEnoughPhrases ==
    << <<"message", "Not enough key phrases found to perform semantic analysis.">> >>

NoClusters ==
    << <<"message", "No strong semantic clusters were identified.">> >>

\* doc1.similarity(doc2) > 0.70, for two phrases that have vectors
Related(n, a, b) ==
    /\ a # b
    /\ b \notin n.vectorless
    /\ {a, b} \in n.similar

\* the loop of lines 72-86 over the main phrases from position i on
RECURSIVE ClusterLoop(_, _, _, _, _)
ClusterLoop(n, main_phrases, all_phrases, hashSeed, i) ==
    IF i > Len(main_phrases)
    THEN <<>>
    ELSE LET phrase == main_phrases[i]
             related == SelectSeq(all_phrases, LAMBDA b : Related(n, phrase, b))
             rest == ClusterLoop(n, main_phrases, all_phrases, hashSeed, i + 1)
         IN  IF phrase \in n.vectorless \/ related = <<>>
             THEN rest
             ELSE << <<phrase, SetOrder(Range(related), hashSeed)>> >> \o rest

analyze_semantic_relationships(n, hashSeed) ==
    LET texts == SelectSeq(n.chunks, IsKeyPhrase)
        key_phrases == [i \in 1..Len(texts) |-> LowerStr(texts[i])]
        main_phrases == OD_Keys(most_common(CounterOf(key_phrases, <<>>), MainPhraseLimit))
        all_phrases == SetOrder(Range(key_phrases), hashSeed)
        semantic_clusters == ClusterLoop(n, main_phrases, all_phrases, hashSeed, 1)
    IN  IF key_phrases = <<>> THEN NotEnoughPhrases
        ELSE IF semantic_clusters # <<>> THEN semantic_clusters
        ELSE NoClusters

\* the analysis without the try of lines 225-228: no field when it raises
SemanticFieldUnguarded(r, d, hashSeed) ==
    IF d.nlp.fails
    THEN r
    ELSE OD_Set(r, "Semantic Keyword Clusters",
                analyze_semantic_relationships(d.nlp, hashSeed))

\* lines 225-228: the analysis, or the error mapping when it raises
SemanticField(r, d, hashSeed) ==
    OD_Set(r, "Semantic Keyword Clusters",
           IF d.nlp.fails
           THEN << <<"error", "Failed during semantic analysis: ">> >>
           ELSE analyze_semantic_relationships(d.nlp, hashSeed))

----------------------------------------------------------------------------
(* build_report, lines 129-230 *)

\* whether build_report raises instead of returning a report
BuildRaises(d) == HreflangRaises(d)

build_report(url, d, response_status, hashSeed) ==
    LET r1 == OD_Set(OD_Set(<<>>, "URL", url), "Status", response_status)
        r2 == HeadingFields(MetaFields(TitleFields(r1, d), d), d)
        r3 == BodyFields(r2, d)
        r4 == OD_Set(OD_Set(r3, "Canonical", AttrOrNotFound(d.canonical)),
                     "Robots", AttrOrNotFound(d.robots))
        r5 == LinkFields(SecurityFields(r4, url, d), url, d)
        r6 == SchemaField(ImageFields(r5, d), d)
        r7 == HreflangField(OD_Set(r6, "Favicon", AttrOrNotFound(d.favicon)), d)
        r8 == HeadingScoreField(KeywordFields(r7, d), d)
    IN  SemanticField(r8, d, hashSeed)

----------------------------------------------------------------------------
(* Inputs and defaults shared by the specifications *)

NoRequest == [call |-> "none", top_n |-> 0]

\* everything but pc, doc, req and report stays as after start-up
Untouched == UNCHANGED <<status, events, served, seed, prevReport>>

----------------------------------------------------------------------------
(* TitleSpec: the title pass of build_report on every title element *)

TitleChars == {" ", "a", "N"}

TitleTexts ==
    SeqsUpTo(TitleChars, MaxTitleLen) \cup {NotFound, <<" ">> \o NotFound \o <<" ">>}

\* no <title>; <title></title>, whose .string is None; <title>text</title>
TitleElements ==
    {[exists |-> FALSE, hasString |-> FALSE, string |-> <<>>],
     [exists |-> TRUE, hasString |-> FALSE, string |-> <<>>]}
    \cup {[exists |-> TRUE, hasString |-> TRUE, string |-> t] : t \in TitleTexts \ {<<>>}}

\* the document has a title: a title element with text in it
HasTitle(d) == d.title.exists /\ d.title.hasString

TitleInit ==
    /\ pc = "ready"
    /\ req = NoRequest
    /\ doc \in {[BlankDoc EXCEPT !.title = t] : t \in TitleElements}
    /\ report = <<>>
    /\ status = 0
    /\ events = <<>>
    /\ served = 0
    /\ seed = <<>>
    /\ prevReport = <<>>

BuildTitle ==
    /\ pc = "ready"
    /\ report' = TitleFields(<<>>, doc)
    /\ pc' = "done"
    /\ UNCHANGED <<req, doc>>
    /\ Untouched

TitleNext == BuildTitle

TitleSpec == TitleInit /\ [][TitleNext]_vars

\* C5: Title is the trimmed text of the title element, or "Not Found" when
\* the document has no title; Title Length is 0 when the title is not found
\* and otherwise the length of the trimmed title text, for every title text.
C5_TitleAndLength ==
    pc = "done" =>
        /\ ~HasTitle(doc) =>
              /\ OD_Get(report, "Title") = NotFound
              /\ OD_Get(report, "Title Length") = 0
        /\ HasTitle(doc) =>
              /\ OD_Get(report, "Title") = Strip(doc.title.string)
              /\ OD_Get(report, "Title Length") = Len(Strip(doc.title.string))

----------------------------------------------------------------------------
(* HeadingSpec: heading_structure_score on every heading sequence *)

HeadingLevels == 1..6

\* the levels of the longest run of alternating skips and returns
SkipLevels == {1, 3}

HeadingSeqs ==
    SeqsUpTo(HeadingLevels, MaxHeadings) \cup SeqsUpTo(SkipLevels, MaxSkipHeadings)

\* heading tags of the given levels, each with the same one-letter text
Headings(levels) == [i \in 1..Len(levels) |-> [level |-> levels[i], text |-> <<"A">>]]

LevelsOf(d) == [i \in 1..Len(d.headings) |-> d.headings[i].level]

HeadingInit ==
    /\ pc = "ready"
    /\ req = NoRequest
    /\ doc \in {[BlankDoc EXCEPT !.headings = Headings(h)] : h \in HeadingSeqs}
    /\ report = <<>>
    /\ status = 0
    /\ events = <<>>
    /\ served = 0
    /\ seed = <<>>
    /\ prevReport = <<>>

ScoreHeadings ==
    /\ pc = "ready"
    /\ report' = HeadingScoreField(<<>>, doc)
    /\ pc' = "done"
    /\ UNCHANGED <<req, doc>>
    /\ Untouched

HeadingNext == ScoreHeadings

HeadingSpec == HeadingInit /\ [][HeadingNext]_vars

\* number of headings more than one level below the heading just before them
LevelSkips(h) == Cardinality({i \in 2..Len(h) : h[i] - h[i - 1] > 1})

\* C7: the score is 0 for no headings and otherwise max(0, 100 - 20 * k),
\* k the number of headings whose level exceeds the previous heading's level
\* by more than one; it lies in 0..100, and h1,h3 scores 80.
C7_HeadingScore ==
    pc = "done" =>
        LET h == LevelsOf(doc)
            score == OD_Get(report, "Heading Structure Score")
        IN  /\ h = <<>> => score = 0
            /\ h # <<>> => score = Max(0, 100 - 20 * LevelSkips(h))
            /\ score \in 0..100
            /\ h = <<1, 3>> => score = 80

\* a clamped score: more skips than the 100 points pay for
C7_Witness ==
    /\ pc = "done"
    /\ LevelSkips(LevelsOf(doc)) > 5
    /\ OD_Get(report, "Heading Structure Score") = 0

----------------------------------------------------------------------------
(* KeywordSpec: extract_keywords on every text and top_n, and the word     *)
(* count, keyword and density passes of build_report on every text         *)

\* two words, one of them capitalised, a stopword, a short word, a blank
\* and a punctuation mark; a text is any concatenation of them
TextAtoms ==
    { <<"s","e","o">>, <<"W","e","b">>, <<"t","h","e">>, <<"g","o">>, <<" ">>, <<"-">> }

Texts == {Concat(a) : a \in SeqsUpTo(TextAtoms, MaxTextAtoms)}

TopNs == 0..MaxTopN \cup {DefaultTopN}

KeywordInit ==
    /\ pc = "ready"
    /\ req = NoRequest
    /\ doc \in {[BlankDoc EXCEPT !.full_text = t] : t \in Texts}
    /\ report = <<>>
    /\ status = 0
    /\ events = <<>>
    /\ served = 0
    /\ seed = <<>>
    /\ prevReport = <<>>

\* a call extract_keywords(text, top_n)
ExtractKeywords ==
    /\ pc = "ready"
    /\ \E n \in TopNs :
          /\ req' = [call |-> "extract_keywords", top_n |-> n]
          /\ report' = OD_Set(<<>>, "Top Keywords", extract_keywords(doc.full_text, n))
    /\ pc' = "done"
    /\ UNCHANGED doc
    /\ Untouched

\* lines 153-157 and 215-219 of build_report
BuildKeywordFields ==
    /\ pc = "ready"
    /\ req' = [call |-> "build_report", top_n |-> DefaultTopN]
    /\ report' = KeywordFields(BodyFields(<<>>, doc), doc)
    /\ pc' = "done"
    /\ UNCHANGED doc
    /\ Untouched

KeywordNext == ExtractKeywords \/ BuildKeywordFields

KeywordSpec == KeywordInit /\ [][KeywordNext]_vars

\* the normalized tokens of a text: lowercased, every character that is not
\* alphanumeric read as a blank, cut at whitespace
NormalTokens(text) ==
    Split([i \in 1..Len(text) |->
              IF IsAlnum(text[i]) THEN Lower(text[i]) ELSE " "])

Occurrences(w, tokens) == Cardinality({i \in 1..Len(tokens) : tokens[i] = w})

FirstAt(w, tokens) == CHOOSE i \in 1..Len(tokens) :
                          tokens[i] = w /\ \A j \in 1..(i - 1) : tokens[j] # w

\* token a ranks at or above token b: more occurrences, or as many and not later
RanksAtOrAbove(a, b, tokens) ==
    \/ Occurrences(a, tokens) > Occurrences(b, tokens)
    \/ /\ Occurrences(a, tokens) = Occurrences(b, tokens)
       /\ FirstAt(a, tokens) <= FirstAt(b, tokens)

Eligible(tokens) == {w \in Range(tokens) : w \notin stopwords /\ Len(w) > 2}

\* C10: extract_keywords returns no stopword and no token of length <= 2, at
\* most top_n entries, each token with its exact number of occurrences among
\* the normalized tokens, by non-increasing count and first occurrence among
\* equal counts, omitting a token only when top_n tokens ranked at or above
\* it are present; the empty text gives the empty mapping, Word Count 0 and
\* an empty Keyword Density.
C10_ExtractKeywords ==
    pc = "done" =>
        LET tokens == NormalTokens(doc.full_text)
            kw == OD_Get(report, "Top Keywords")
            words == OD_Keys(kw)
        IN  /\ \A i \in 1..Len(kw) : kw[i][1] \notin stopwords /\ Len(kw[i][1]) > 2
            /\ Len(kw) <= req.top_n
            /\ \A i \in 1..Len(kw) :
                  kw[i][1] \in Range(tokens) /\ kw[i][2] = Occurrences(kw[i][1], tokens)
            /\ \A i, j \in 1..Len(kw) :
                  i < j => /\ kw[i][1] # kw[j][1]
                           /\ RanksAtOrAbove(kw[i][1], kw[j][1], tokens)
            /\ \A w \in Eligible(tokens) \ Range(words) :
                  /\ Len(kw) = req.top_n
                  /\ \A i \in 1..Len(kw) : RanksAtOrAbove(kw[i][1], w, tokens)
            /\ doc.full_text = <<>> =>
                  /\ kw = <<>>
                  /\ req.call = "build_report" =>
                        /\ OD_Get(report, "Word Count") = 0
                        /\ OD_Get(report, "Keyword Density") = <<>>

\* a call that ranks a later, more frequent token first and omits tokens
C10_Witness ==
    /\ pc = "done"
    /\ req.call = "extract_keywords"
    /\ req.top_n = 1
    /\ Len(OD_Get(report, "Top Keywords")) = 1
    /\ LET tokens == NormalTokens(doc.full_text)
           top == OD_Get(report, "Top Keywords")[1]
       IN  /\ top[2] = 2
           /\ FirstAt(top[1], tokens) > 1
           /\ tokens[1] \in Eligible(tokens)

\* the sum of the values of a mapping to numbers
RECURSIVE SumValues(_)
SumValues(kw) == IF kw = <<>> THEN 0 ELSE Head(kw)[2] + SumValues(Tail(kw))

\* C3: the Keyword Density values sum to at most 100% (the reported keyword
\* counts sum to at most Word Count) when Word Count is greater than 0;
\* Keyword Density is empty when Word Count is 0.
C3_DensityAtMost100 ==
    (pc = "done" /\ req.call = "build_report") =>
        LET total_words == OD_Get(report, "Word Count")
        IN  /\ total_words > 0 =>
                  /\ SumValues(OD_Get(report, "Keyword Density")) <= 10000
                  /\ SumValues(OD_Get(report, "Top Keywords")) <= total_words
            /\ total_words = 0 => OD_Get(report, "Keyword Density") = <<>>

----------------------------------------------------------------------------
(* LinkSpec: the link pass of build_report on every list of anchors *)

PageURL == URLOf("https", "site.com", "/page", "")

\* href="", "#top", "mailto:a@site.com", "tel:123", "/about",
\* "https://site.com/about", "https://other.com/", "//other.com/x"
Hrefs ==
    { URLOf("", "", "", ""),
      URLOf("", "", "", "top"),
      URLOf("mailto", "", "a@site.com", ""),
      URLOf("tel", "", "123", ""),
      URLOf("", "", "/about", ""),
      URLOf("https", "site.com", "/about", ""),
      URLOf("https", "other.com", "/", ""),
      URLOf("", "other.com", "/x", "") }

\* <a> without href, and <a href=...> for every href above
AnchorTags ==
    {[hasHref |-> FALSE, href |-> URLOf("", "", "", ""), text |-> <<"x">>]}
    \cup {[hasHref |-> TRUE, href |-> h, text |-> <<"x">>] : h \in Hrefs}

SameAnchors(n) ==
    [i \in 1..n |-> [hasHref |-> TRUE, href |-> URLOf("", "", "/about", ""), text |-> <<"x">>]]

AnchorLists ==
    SeqsUpTo(AnchorTags, MaxAnchors) \cup {SameAnchors(n) : n \in 0..MaxSameAnchors}

LinkInit ==
    /\ pc = "ready"
    /\ req = NoRequest
    /\ doc \in {[BlankDoc EXCEPT !.anchors = a] : a \in AnchorLists}
    /\ report = <<>>
    /\ status = 0
    /\ events = <<>>
    /\ served = 0
    /\ seed = <<>>
    /\ prevReport = <<>>

ClassifyLinks ==
    /\ pc = "ready"
    /\ report' = LinkFields(<<>>, PageURL, doc)
    /\ pc' = "done"
    /\ UNCHANGED <<req, doc>>
    /\ Untouched

LinkNext == ClassifyLinks

LinkSpec == LinkInit /\ [][LinkNext]_vars

IsFragmentOnly(h) == h.scheme = "" /\ h.netloc = "" /\ h.path = "" /\ h.fragment # ""

\* anchors with a non-empty href that is no fragment-only, mailto: or tel: link
CountedAnchors(d) ==
    {i \in 1..Len(d.anchors) :
        /\ d.anchors[i].hasHref
        /\ d.anchors[i].href # URLOf("", "", "", "")
        /\ ~IsFragmentOnly(d.anchors[i].href)
        /\ d.anchors[i].href.scheme \notin {"mailto", "tel"}}

\* C2: Internal Links Count + External Links Count is the number of anchors
\* whose href is non-empty and is no fragment-only, mailto: or tel: link.
C2_LinkCounts ==
    pc = "done" =>
        OD_Get(report, "Internal Links Count") + OD_Get(report, "External Links Count")
            = Cardinality(CountedAnchors(doc))

----------------------------------------------------------------------------
(* SchemaSpec: the schema pass of build_report on every list of JSON-LD     *)
(* script bodies                                                            *)

BodyPieces == {JsonObjectText, "oops", " ", CommentOpen, CommentClose}

ScriptBodies == SeqsUpTo(BodyPieces, MaxBodyPieces)

SchemaInit ==
    /\ pc = "ready"
    /\ req = NoRequest
    /\ doc \in {[BlankDoc EXCEPT !.ldjson = b] : b \in SeqsUpTo(ScriptBodies, MaxScripts)}
    /\ report = <<>>
    /\ status = 0
    /\ events = <<>>
    /\ served = 0
    /\ seed = <<>>
    /\ prevReport = <<>>

ParseSchemas ==
    /\ pc = "ready"
    /\ report' = SchemaField(<<>>, doc)
    /\ pc' = "done"
    /\ UNCHANGED <<req, doc>>
    /\ Untouched

SchemaNext == ParseSchemas

SchemaSpec == SchemaInit /\ [][SchemaNext]_vars

\* a body with the HTML comment markers taken out of it
WithoutCommentMarkers(body) ==
    SelectSeq(body, LAMBDA piece : piece \notin {CommentOpen, CommentClose})

\* the body is JSON, as it stands or once its comment markers are stripped
Recoverable(body) ==
    \/ Strip(body) = <<JsonObjectText>>
    \/ Strip(WithoutCommentMarkers(Strip(body))) = <<JsonObjectText>>

\* C9: a JSON-LD body that parses is appended to Schema Markup; one that
\* fails is parsed again with its HTML comment markers stripped, so that
\* JSON wrapped in comment markers is recovered; a body that still fails and
\* an empty body are skipped; Schema Markup is "Not Found" exactly when no
\* block was parsed.
C9_SchemaRecovery ==
    pc = "done" =>
        LET parsed == {i \in 1..Len(doc.ldjson) : Recoverable(doc.ldjson[i])}
            schemas == OD_Get(report, "Schema Markup")
        IN  /\ parsed = {} <=> schemas = NotFound
            /\ parsed # {} => /\ Len(schemas) = Cardinality(parsed)
                              /\ \A i \in 1..Len(schemas) : schemas[i] = "Article"

----------------------------------------------------------------------------
(* ReportSpec: build_report run twice on the same URL, status and document, *)
(* in the same interpreter or in one started afresh in between              *)

\* the noun chunks of the documents: three phrases of two words, one of
\* them capitalised, and a single word
ChunkTexts ==
    { <<"s","e","o"," ","t","o","o","l">>,
      <<"S","E","O"," ","T","i","p","s">>,
      <<"s","e","o"," ","k","i","t">>,
      <<"w","e","b">> }

KeyPhrases == {LowerStr(t) : t \in {c \in ChunkTexts : IsKeyPhrase(c)}}

Orderings(S) ==
    {f \in [1..Cardinality(S) -> S] : \A i, j \in 1..Cardinality(S) : f[i] = f[j] => i = j}

\* the orders in which an interpreter may hash the key phrases
HashOrders == Orderings(KeyPhrases)

AllPairs == {{a, b} : a, b \in KeyPhrases} \ {{a} : a \in KeyPhrases}

\* no two phrases similar, all of them, or only those about tools and tips
SimilarityRelations ==
    { {}, AllPairs, {{<<"s","e","o"," ","t","o","o","l">>, <<"s","e","o"," ","t","i","p","s">>}} }

NlpOutcomes ==
    {[fails |-> TRUE, chunks |-> <<>>, similar |-> {}, vectorless |-> {}]}
    \cup {[fails |-> FALSE, chunks |-> c, similar |-> sim, vectorless |-> v] :
             c \in SeqsUpTo(ChunkTexts, MaxChunks),
             sim \in SimilarityRelations,
             v \in {{}, {<<"s","e","o"," ","k","i","t">>}}}

\* a page with every element the report looks for
SampleDoc ==
    [ title      |-> [exists |-> TRUE, hasString |-> TRUE, string |-> <<" ", "S", "e", "o">>],
      meta_desc  |-> [exists |-> TRUE, hasAttr |-> TRUE, value |-> <<"s", "e", "o", " ">>],
      headings   |-> <<[level |-> 1, text |-> <<"A">>], [level |-> 3, text |-> <<"B", " ">>],
                       [level |-> 1, text |-> <<"C">>]>>,
      full_text  |-> <<"S","e","o"," ","A"," ","B"," ","C"," ","s","e","o","-","W","e","b">>,
      canonical  |-> [exists |-> TRUE, hasAttr |-> TRUE, value |-> <<"/", "c">>],
      robots     |-> [exists |-> TRUE, hasAttr |-> FALSE, value |-> <<>>],
      resources  |-> <<<<>>, <<"h","t","t","p",":","/","/","c","d","n">>>>,
      anchors    |-> <<[hasHref |-> TRUE, href |-> URLOf("", "", "/about", ""), text |-> <<"x">>],
                       [hasHref |-> TRUE, href |-> URLOf("https", "other.com", "/", ""), text |-> <<>>],
                       [hasHref |-> FALSE, href |-> URLOf("", "", "", ""), text |-> <<"y">>]>>,
      images     |-> <<[hasAlt |-> TRUE, alt |-> <<" ">>], [hasAlt |-> FALSE, alt |-> <<>>],
                       [hasAlt |-> TRUE, alt |-> <<"a">>]>>,
      ldjson     |-> <<<<JsonObjectText>>, <<"oops">>>>,
      favicon    |-> [exists |-> TRUE, hasAttr |-> TRUE, value |-> <<"/", "f">>],
      alternates |-> <<[hasHreflang |-> TRUE, hasHref |-> TRUE, href |-> <<"/", "d", "e">>],
                       [hasHreflang |-> FALSE, hasHref |-> FALSE, href |-> <<>>],
                       [hasHreflang |-> TRUE, hasHref |-> TRUE, href |-> <<"/", "f", "r">>]>>,
      nlp        |-> NoChunks ]

\* the same page with <link rel="alternate" hreflang="de"> lacking its href
RaisingDoc ==
    [SampleDoc EXCEPT !.alternates =
        <<[hasHreflang |-> TRUE, hasHref |-> FALSE, href |-> <<>>]>>]

PageKinds == {BlankDoc, SampleDoc, RaisingDoc}

ReportDocs == {[d EXCEPT !.nlp = n] : d \in PageKinds, n \in NlpOutcomes}

ReportInit ==
    /\ pc = "ready"
    /\ req = NoRequest
    /\ doc \in ReportDocs
    /\ report = <<>>
    /\ status = 0
    /\ events = <<>>
    /\ served = 0
    /\ seed \in HashOrders
    /\ prevReport = <<>>

\* build_report(url, soup, 200) returns its first report
FirstRun ==
    /\ pc = "ready"
    /\ ~BuildRaises(doc)
    /\ prevReport' = build_report(PageURL, doc, 200, seed)
    /\ pc' = "once"
    /\ UNCHANGED <<req, doc, report, status, events, served, seed>>

\* build_report raises: no report is returned
RunRaises ==
    /\ pc = "ready"
    /\ BuildRaises(doc)
    /\ pc' = "raised"
    /\ UNCHANGED <<req, doc, report, status, events, served, seed, prevReport>>

\* the service is started again (a deploy, another worker process): a new
\* interpreter draws a new hash seed
Restart ==
    /\ pc = "once"
    /\ seed' \in HashOrders
    /\ pc' = "restarted"
    /\ UNCHANGED <<req, doc, report, status, events, served, prevReport>>

\* build_report on the identical URL, status and document
SecondRun ==
    /\ pc \in {"once", "restarted"}
    /\ report' = build_report(PageURL, doc, 200, seed)
    /\ pc' = "done"
    /\ UNCHANGED <<req, doc, status, events, served, seed, prevReport>>

ReportNext == FirstRun \/ RunRaises \/ Restart \/ SecondRun

ReportSpec == ReportInit /\ [][ReportNext]_vars

\* the recognized fields, in the order of the report
ReportFields ==
    << "URL", "Status", "Title", "Title Length", "Meta Description",
       "Meta Description Length", "H1", "H2", "H3", "Body Content (Preview)",
       "Word Count", "Canonical", "Robots", "HTTPS", "Mixed Content",
       "Internal Links Count", "External Links Count", "Internal Links",
       "External Links", "Total Images", "Images Missing ALT", "Schema Markup",
       "Favicon", "Hreflang Tags", "Top Keywords", "Keyword Density",
       "Heading Structure Score", "Semantic Keyword Clusters" >>

\* C6: two runs of build_report on the same URL, status and document yield
\* identical reports, field by field and element by element in order.
C6_SameReportTwice ==
    pc = "done" => report = prevReport

----------------------------------------------------------------------------
(* The request handlers audit, lines 270-290, and audit_report, 293-314 *)

\* the exception classes that reach the handlers, each with its base classes
Bases(class) ==
    CASE class = "ConnectTimeout"   -> {"ConnectionError", "Timeout"}
      [] class = "ReadTimeout"      -> {"Timeout"}
      [] class = "Timeout"          -> {"RequestException"}
      [] class = "ConnectionError"  -> {"RequestException"}
      [] class = "HTTPError"        -> {"RequestException"}
      [] class = "MissingSchema"    -> {"RequestException"}
      [] class = "TooManyRedirects" -> {"RequestException"}
      [] class = "RequestException" -> {"Exception"}
      [] class = "TypeError"        -> {"Exception"}
      [] OTHER                      -> {}

\* isinstance(exc, class), exc given by its class
RECURSIVE IsInstance(_, _)
IsInstance(exc, class) ==
    exc = class \/ \E base \in Bases(exc) : IsInstance(base, class)

\* the except clauses of audit, lines 285-290, in their order
audit_except(exc) ==
    IF IsInstance(exc, "Timeout") THEN 504
    ELSE IF IsInstance(exc, "RequestException") THEN 400
    ELSE 500

\* the except clauses of audit_report, lines 309-314, in their order
audit_report_except(exc) ==
    IF IsInstance(exc, "Timeout") THEN 504
    ELSE IF IsInstance(exc, "RequestException") THEN 400
    ELSE 500

Except(endpoint, exc) ==
    IF endpoint = "/audit" THEN audit_except(exc) ELSE audit_report_except(exc)

\* resp.raise_for_status(): HTTPError for a 4xx or 5xx status, nothing otherwise
RaisesForStatus(code) == 400 <= code /\ code < 600

\* A URL text is a sequence of lexical pieces: blanks, a scheme with its
\* "://", a host and a path.
SchemePieces == {"http://", "https://"}

HasScheme(url) == url # <<>> /\ url[1] \in SchemePieces

\* urlparse(url) of a URL text scheme, host, path
urlparse(url) ==
    URLOf(IF url[1] = "https://" THEN "https" ELSE "http", url[2], url[3], "")

\* the url arguments of a request: none, blank, a page URL, the same URL
\* between blanks, a plain-http URL and a host without a scheme
UrlArguments ==
    { <<>>, <<" ">>, <<" ", "\t">>,
      <<"https://", "site.com", "/page">>,
      <<" ", "https://", "site.com", "/page", " ">>,
      <<"http://", "site.com", "/page">>,
      <<"site.com">> }

Endpoints == {"/audit", "/audit-report"}

\* what requests.get raises on a URL it can send
FetchErrors == {"ConnectTimeout", "ReadTimeout", "ConnectionError", "TooManyRedirects"}

\* final statuses of a response: success, a redirect that requests does not
\* follow, client and server errors, and a status outside the standard
\* classes (HTTP 999, as some sites answer to crawlers)
StatusCodes == {200, 204, 304, 404, 503, 999}

NoOutcome == [kind |-> "none", exc |-> "", code |-> 0]

\* what spaCy makes of the fetched pages: no noun chunk, an exception, a
\* single word, and three phrases similar to one another
FetchedNlp ==
    { NoChunks,
      [fails |-> TRUE, chunks |-> <<>>, similar |-> {}, vectorless |-> {}],
      [fails |-> FALSE, chunks |-> <<<<"w","e","b">>>>, similar |-> {}, vectorless |-> {}],
      [fails |-> FALSE,
       chunks |-> <<<<"s","e","o"," ","k","i","t">>, <<"s","e","o"," ","t","o","o","l">>,
                    <<"S","E","O"," ","T","i","p","s">>>>,
       similar |-> AllPairs, vectorless |-> {}] }

\* the pages a fetch may return
FetchedDocs == {[d EXCEPT !.nlp = n] : d \in PageKinds, n \in FetchedNlp}

RequestInit ==
    /\ pc = "idle"
    /\ req = [endpoint |-> "", hasUrl |-> FALSE, url |-> <<>>,
              fetch |-> NoOutcome, analysis |-> ""]
    /\ doc = BlankDoc
    /\ report = <<>>
    /\ status = 0
    /\ events = <<>>
    /\ served = 0
    /\ seed \in HashOrders
    /\ prevReport = <<>>

\* a request arrives; request.args.get("url", "") is "" without the argument
Receive ==
    /\ pc \in {"idle", "responded"}
    /\ served < MaxRequests
    /\ \E e \in Endpoints, u \in UrlArguments, given \in BOOLEAN :
          /\ (~given => u = <<>>)
          /\ req' = [endpoint |-> e, hasUrl |-> given, url |-> u,
                     fetch |-> NoOutcome, analysis |-> ""]
    /\ pc' = "received"
    /\ served' = served + 1
    /\ status' = 0
    /\ events' = <<>>
    /\ report' = <<>>
    /\ doc' = BlankDoc
    /\ UNCHANGED <<seed, prevReport>>

\* lines 272-274 and 295-297: url = ....strip(); if not url: return ..., 400
RejectBlank ==
    /\ pc = "received"
    /\ Strip(req.url) = <<>>
    /\ status' = 400
    /\ events' = Append(events, "respond")
    /\ pc' = "responded"
    /\ UNCHANGED <<req, doc, report, served, seed, prevReport>>

\* lines 277-278 and 300-301: requests.get raises, or returns a response
\* on which raise_for_status raises, or returns a response that passes
Fetch ==
    /\ pc = "received"
    /\ Strip(req.url) # <<>>
    /\ \E outcome \in [kind : {"raised"}, exc : FetchErrors \cup {"MissingSchema"}, code : {0}]
                      \cup [kind : {"response"}, exc : {""}, code : StatusCodes] :
          /\ HasScheme(Strip(req.url)) <=> outcome.exc # "MissingSchema"
          /\ req' = [req EXCEPT !.fetch = outcome]
          /\ IF outcome.kind = "raised"
             THEN /\ status' = Except(req.endpoint, outcome.exc)
                  /\ events' = events \o <<"fetch", "respond">>
                  /\ pc' = "responded"
                  /\ doc' = doc
             ELSE IF RaisesForStatus(outcome.code)
             THEN /\ status' = Except(req.endpoint, "HTTPError")
                  /\ events' = events \o <<"fetch", "respond">>
                  /\ pc' = "responded"
                  /\ doc' = doc
             ELSE /\ status' = status
                  /\ events' = Append(events, "fetch")
                  /\ pc' = "fetched"
                  /\ doc' \in FetchedDocs
    /\ UNCHANGED <<report, served, seed, prevReport>>

\* lines 280-283 and 303-307: parse, build_report, respond with the report
\* (as JSON or as text); an exception goes to the except clauses
Analyse ==
    /\ pc = "fetched"
    /\ IF BuildRaises(doc)
       THEN /\ status' = Except(req.endpoint, "TypeError")
            /\ req' = [req EXCEPT !.analysis = "raised"]
            /\ report' = report
       ELSE /\ status' = 200
            /\ req' = [req EXCEPT !.analysis = "returned"]
            /\ report' = build_report(urlparse(Strip(req.url)), doc, req.fetch.code, seed)
    /\ events' = events \o <<"parse", "build_report", "respond">>
    /\ pc' = "responded"
    /\ UNCHANGED <<doc, served, seed, prevReport>>

RequestNext == Receive \/ RejectBlank \/ Fetch \/ Analyse

\* a handler runs to its return: the only wait is the fetch, which
\* REQUEST_TIMEOUT bounds
RequestSpec ==
    RequestInit /\ [][RequestNext]_vars /\ WF_vars(RejectBlank \/ Fetch \/ Analyse)

Count(e, log) == Cardinality({i \in 1..Len(log) : log[i] = e})

\* the url parameter is missing or blank
BlankUrl == \A i \in 1..Len(req.url) : IsSpace(req.url[i])

\* the fetch timed out
FetchTimedOut == req.fetch.kind = "raised" /\ req.fetch.exc \in {"ConnectTimeout", "ReadTimeout"}

\* the fetch failed otherwise: a network failure, or a status that is not 2xx
FetchFailed ==
    \/ req.fetch.kind = "raised" /\ ~FetchTimedOut
    \/ req.fetch.kind = "response" /\ req.fetch.code \notin 200..299

\* C1: on both endpoints a missing or blank url gives 400, a fetch that
\* times out 504, any other fetch failure, a non-2xx status included, 400,
\* an exception during analysis 500, and anything else 200 with the report.
C1_StatusPolicy ==
    pc = "responded" =>
        status = IF BlankUrl THEN 400
                 ELSE IF FetchTimedOut THEN 504
                 ELSE IF FetchFailed THEN 400
                 ELSE IF req.analysis = "raised" THEN 500
                 ELSE 200

\* C8: a missing or blank url is never fetched; after a failed fetch (a
\* network failure, a non-2xx status or a timeout) nothing is extracted; a
\* request fetches at most once and ends with exactly one response.
C8_NoFetchNoExtractOneResponse ==
    /\ BlankUrl => Count("fetch", events) = 0
    /\ (FetchTimedOut \/ FetchFailed) =>
          Count("parse", events) = 0 /\ Count("build_report", events) = 0
    /\ Count("fetch", events) <= 1
    /\ Count("respond", events) <= 1
    /\ pc = "responded" <=> Count("respond", events) = 1

\* C4: every report build_report returns holds every recognized field, in
\* the same order, for every document, also when data is absent and when
\* the semantic analysis raises: that field is then an error mapping and
\* the report is still returned, with status 200 and not 500.
C4_AllFieldsInOrder ==
    (pc = "responded" /\ req.analysis = "returned") =>
        /\ OD_Keys(report) = ReportFields
        /\ status = 200
        /\ doc.nlp.fails =>
              OD_Keys(OD_Get(report, "Semantic Keyword Clusters")) = <<"error">>

\* the report of an empty page whose semantic analysis raised
C4_Witness ==
    /\ pc = "responded"
    /\ req.analysis = "returned"
    /\ status = 200
    /\ doc.nlp.fails
    /\ doc.title = BlankDoc.title
    /\ OD_Keys(report) = ReportFields
    /\ OD_Get(report, "Title") = NotFound
    /\ OD_Get(report, "Schema Markup") = NotFound
    /\ OD_Keys(OD_Get(report, "Semantic Keyword Clusters")) = <<"error">>

====
